---- MODULE Spec2Model ----
(***************************************************************************)
(* Exec-approval forwarder (createExecApprovalForwarder): the pending      *)
(* registry, the expiry timers, the initial fan-out and the terminal       *)
(* update, as a state machine over the forwarder's asynchronous steps.     *)
(*                                                                         *)
(* Strings of the program are sequences of tokens: a token is either a     *)
(* word without ':' ("agent", "main", "x") or one of the characters ":",   *)
(* "^", "$", "(" .  null/undefined of an optional string is Null.          *)
(***************************************************************************)
EXTENDS Integers, Sequences, FiniteSets, TLC

\* ------------------------------------------------------------- bounds
MaxRequests == 2      \* handleRequested calls in one behaviour
MaxTime == 1          \* the clock runs 0..MaxTime
MaxFaults == 1        \* sink and edit calls that throw in one behaviour
MaxFanouts == 1       \* accepted requests with more than one target

\* ------------------------------------------------------------- strings
Null == <<"null">>

Coalesce(a, b) == IF a = Null THEN b ELSE a          \* a ?? b

Falsy(s) == s = Null \/ s = <<>>                     \* !s

RECURSIVE Join(_, _)
Join(parts, sep) ==                                  \* parts.join(sep)
  IF Len(parts) = 0 THEN <<>>
  ELSE IF Len(parts) = 1 THEN parts[1]
  ELSE parts[1] \o <<sep>> \o Join(Tail(parts), sep)

Includes(s, p) ==                                    \* s.includes(p)
  \E i \in 0..(Len(s) - Len(p)) : SubSeq(s, i + 1, i + Len(p)) = p

InSeq(x, xs) == \E i \in DOMAIN xs : xs[i] = x       \* xs.includes(x)

\* new RegExp(p) throws: the patterns of the model hold "(" only unbalanced
RegExpSyntaxError(p) == \E i \in DOMAIN p : p[i] = "("

\* new RegExp(p).test(s) for patterns of literal tokens with an optional
\* leading "^" and trailing "$"; an anchor anywhere else never matches
RegExpTest(p, s) ==
  LET atStart == Len(p) > 0 /\ p[1] = "^"
      p1 == IF atStart THEN Tail(p) ELSE p
      atEnd == Len(p1) > 0 /\ p1[Len(p1)] = "$"
      body == IF atEnd THEN SubSeq(p1, 1, Len(p1) - 1) ELSE p1
  IN /\ \A i \in DOMAIN body : body[i] \notin {"^", "$"}
     /\ \E i \in 0..(Len(s) - Len(body)) :
          /\ SubSeq(s, i + 1, i + Len(body)) = body
          /\ atStart => i = 0
          /\ atEnd => i + Len(body) = Len(s)

\* ------------------------------------------------ external collaborators
\* "agent:<agentId>:<rest>" -> agentId, anything else -> null
parseAgentSessionKey(sessionKey) ==
  IF /\ sessionKey # Null
     /\ Len(sessionKey) >= 5
     /\ sessionKey[1] = "agent" /\ sessionKey[2] = ":"
     /\ sessionKey[3] # ":" /\ sessionKey[4] = ":"
  THEN <<sessionKey[3]>>
  ELSE Null

\* normalizeMessageChannel(channel) ?? channel
normalizeMessageChannel(channel) ==
  IF channel = "Discord" THEN "discord" ELSE channel

isDeliverableMessageChannel(channel) == channel \in {"discord", "telegram", "slack"}

\* ------------------------------------------------------- target resolver
DEFAULT_MODE == "session"

normalizeMode(mode) == IF mode = "absent" THEN DEFAULT_MODE ELSE mode

matchSessionFilter(sessionKey, patterns) ==
  \E i \in DOMAIN patterns :
    IF RegExpSyntaxError(patterns[i])
    THEN Includes(sessionKey, patterns[i])
    ELSE Includes(sessionKey, patterns[i]) \/ RegExpTest(patterns[i], sessionKey)

\* shouldForward without the enabled check
shouldForwardIgnoringEnabled(config, request) ==
  IF config = <<>> THEN FALSE
  ELSE
    LET c == config[1]
        agentId == Coalesce(request.agentId, parseAgentSessionKey(request.sessionKey))
    IN /\ ~(Len(c.agentFilter) > 0 /\ (Falsy(agentId) \/ ~InSeq(agentId, c.agentFilter)))
       /\ ~(/\ Len(c.sessionFilter) > 0
            /\ \/ Falsy(request.sessionKey)
               \/ ~matchSessionFilter(request.sessionKey, c.sessionFilter))

\* shouldForward that filters on the explicit agent id only
shouldForwardExplicitAgentOnly(config, request) ==
  IF config = <<>> THEN FALSE
  ELSE IF ~config[1].enabled THEN FALSE
  ELSE
    LET c == config[1]
    IN /\ ~(/\ Len(c.agentFilter) > 0
            /\ request.agentId # Null
            /\ ~InSeq(request.agentId, c.agentFilter))
       /\ ~(/\ Len(c.sessionFilter) > 0
            /\ \/ Falsy(request.sessionKey)
               \/ ~matchSessionFilter(request.sessionKey, c.sessionFilter))

\* config: <<>> when cfg.approvals?.exec is absent, else <<record>>
shouldForward(config, request) ==
  IF config = <<>> THEN FALSE
  ELSE IF ~config[1].enabled THEN FALSE
  ELSE
    LET c == config[1]
        agentId == Coalesce(request.agentId, parseAgentSessionKey(request.sessionKey))
    IN IF Len(c.agentFilter) > 0 /\ (Falsy(agentId) \/ ~InSeq(agentId, c.agentFilter))
       THEN FALSE
       ELSE IF /\ Len(c.sessionFilter) > 0
               /\ \/ Falsy(request.sessionKey)
                  \/ ~matchSessionFilter(request.sessionKey, c.sessionFilter)
       THEN FALSE
       ELSE TRUE

buildTargetKey(target) ==
  Join(<< <<normalizeMessageChannel(target.channel)>>, target.to,
          Coalesce(target.accountId, <<>>), Coalesce(target.threadId, <<>>) >>, ":")

WithSource(target, source) ==
  [channel |-> target.channel, to |-> target.to, accountId |-> target.accountId,
   threadId |-> target.threadId, source |-> source]

Keys(targets) == {buildTargetKey(targets[i]) : i \in DOMAIN targets}

\* for (const target of cands) { if (seen.has(key)) continue; seen.add(key); push }
RECURSIVE PushUnseen(_, _, _)
PushUnseen(targets, cands, source) ==
  IF Len(cands) = 0 THEN targets
  ELSE IF buildTargetKey(Head(cands)) \in Keys(targets)
       THEN PushUnseen(targets, Tail(cands), source)
       ELSE PushUnseen(Append(targets, WithSource(Head(cands), source)),
                       Tail(cands), source)

\* a targets list with the explicit targets ahead of the session target
resolveTargetsExplicitFirst(config, sessionTarget) ==
  LET mode == normalizeMode(config[1].mode)
      fromTargets == IF mode \in {"targets", "both"}
                     THEN PushUnseen(<<>>, config[1].targets, "target")
                     ELSE <<>>
  IN IF mode \in {"session", "both"}
     THEN PushUnseen(fromTargets, sessionTarget, "session")
     ELSE fromTargets

\* the targets list handleRequested builds; sessionTarget is <<>> (null) or <<t>>
resolveTargets(config, sessionTarget) ==
  LET mode == normalizeMode(config[1].mode)
      fromSession == IF mode \in {"session", "both"}
                     THEN PushUnseen(<<>>, sessionTarget, "session")
                     ELSE <<>>
  IN IF mode \in {"targets", "both"}
     THEN PushUnseen(fromSession, config[1].targets, "target")
     ELSE fromSession

\* ------------------------------------------------------ message formatter
\* x / 1000 cut to an integer instead of rounded
TruncDiv1000(x) == x \div 1000

\* Math.round(x / 1000) for an integer x (halves round towards +infinity)
RoundDiv1000(x) == (x + 500) \div 1000

Max(a, b) == IF a >= b THEN a ELSE b

OptLine(label, value) == IF Falsy(value) THEN <<>> ELSE << <<label>> \o value >>

\* the lines of the text, to be joined by "\n"
buildRequestMessage(request, nowMs) ==
  << <<"Exec approval required">>, <<"ID: ">> \o request.id,
     <<"Command: ">> \o request.command >>
  \o OptLine("CWD: ", request.cwd)
  \o OptLine("Host: ", request.host)
  \o OptLine("Agent: ", request.agentId)
  \o OptLine("Security: ", request.security)
  \o OptLine("Ask: ", request.ask)
  \o << <<"Expires in: ", ToString(Max(0, RoundDiv1000(request.expiresAtMs - nowMs))), "s">>,
        <<"Reply with: /approve <id> allow-once|allow-always|deny">> >>

decisionLabel(decision) ==
  IF decision = "allow-once" THEN "allowed once"
  ELSE IF decision = "allow-always" THEN "allowed always"
  ELSE "denied"

buildResolvedMessage(resolved) ==
  << <<"Exec approval ", decisionLabel(resolved.decision), ".">>
     \o (IF Falsy(resolved.resolvedBy) THEN <<>>
         ELSE <<" Resolved by ">> \o resolved.resolvedBy \o <<".">>)
     \o <<" ID: ">> \o resolved.id >>

buildExpiredMessage(request) == << <<"Exec approval expired. ID: ">> \o request.id >>

\* rich payloads (built by the discord adapter)
formatExecApprovalEmbed(request) == [kind |-> "request", id |-> request.id]

buildExecApprovalComponents(id) == << [kind |-> "buttons", id |-> id] >>

formatResolvedEmbed(request, decision, resolvedBy) ==
  [kind |-> "resolved", id |-> request.id,
   color |-> IF decision = "allow-once" THEN "green"
             ELSE IF decision = "allow-always" THEN "blue" ELSE "red",
   footer |-> <<decision>> \o Coalesce(resolvedBy, <<>>)]

formatExpiredEmbed(request) ==
  [kind |-> "resolved", id |-> request.id, color |-> "gray", footer |-> <<"Expired">>]

\* ------------------------------------------------------------------ state
VARIABLES
  pending,       \* Map<string, PendingApproval>: a set of [id, eid] pairs
  entries,       \* the PendingApproval objects ever created, eid = index
  timers,        \* the timer armed with entry eid: [id, state, due]
  run,           \* per entry: the awaiting handleRequested call and the update
  deliverCalls,  \* per entry: the calls of the delivery sink, in call order
  editCalls,     \* per entry: the calls of editDiscordEmbed, in call order
  now,           \* the clock (ms)
  reqCount,      \* handleRequested calls so far
  faults,        \* sink and edit calls that threw so far
  last           \* the call just made, if it was one of the forwarder's handlers

vars == <<pending, entries, timers, run, deliverCalls, editCalls, now, reqCount,
          faults, last>>

\* pending.get(id): the entries filed under id
MapGet(map, id) == {p.eid : p \in {q \in map : q.id = id}}

\* a delete that empties the registry
MapDeleteAll(map, id) == {}

MapDelete(map, id) == {p \in map : p.id # id}

\* a registry that files the new entry beside the old one
MapSetKeepOld(map, id, eid) == map \cup {[id |-> id, eid |-> eid]}

MapSet(map, id, eid) == MapDelete(map, id) \cup {[id |-> id, eid |-> eid]}

InFlight(calls, phase) ==
  {k \in DOMAIN calls : calls[k].phase = phase /\ calls[k].status = "inflight"}

AllIdxs(targets) == [i \in 1..Len(targets) |-> i]

\* ------------------------------------------------- delivery coordinator
\* deliverToTargets up to its await: the sink is called for target idxs[1],
\* idxs[2], ... of the entry unless the guard or the channel check returns
RECURSIVE startDeliveriesUnchecked(_, _, _, _, _, _, _)
\* a fan-out without the channel check
startDeliveriesUnchecked(calls, phase, targets, idxs, text, channelData, shouldSend) ==
  IF Len(idxs) = 0 THEN calls
  ELSE
    LET target == targets[Head(idxs)]
        call == [phase |-> phase, ti |-> Head(idxs),
                 channel |-> normalizeMessageChannel(target.channel),
                 to |-> target.to, accountId |-> target.accountId,
                 threadId |-> target.threadId, text |-> text,
                 channelData |-> channelData, status |-> "inflight", results |-> <<>>]
    IN startDeliveriesUnchecked(IF shouldSend THEN Append(calls, call) ELSE calls,
                                phase, targets, Tail(idxs), text, channelData, shouldSend)

RECURSIVE startDeliveries(_, _, _, _, _, _, _)
\* a fan-out that sends the terminal texts only
startDeliveriesTerminalOnly(calls, phase, targets, idxs, text, channelData, shouldSend) ==
  IF phase # "terminal" THEN calls
  ELSE [i \in 1..Len(idxs) |->
          [phase |-> phase, ti |-> idxs[i],
           channel |-> normalizeMessageChannel(targets[idxs[i]].channel),
           to |-> targets[idxs[i]].to, accountId |-> targets[idxs[i]].accountId,
           threadId |-> targets[idxs[i]].threadId, text |-> text,
           channelData |-> channelData, status |-> "inflight", results |-> <<>>]]

startDeliveries(calls, phase, targets, idxs, text, channelData, shouldSend) ==
  IF Len(idxs) = 0 THEN calls
  ELSE
    LET target == targets[Head(idxs)]
        channel == normalizeMessageChannel(target.channel)
        call == [phase |-> phase, ti |-> Head(idxs), channel |-> channel,
                 to |-> target.to, accountId |-> target.accountId,
                 threadId |-> target.threadId, text |-> text,
                 channelData |-> channelData, status |-> "inflight", results |-> <<>>]
        sent == IF ~shouldSend THEN calls
                ELSE IF ~isDeliverableMessageChannel(channel) THEN calls
                ELSE Append(calls, call)
    IN startDeliveries(sent, phase, targets, Tail(idxs), text, channelData, shouldSend)

RECURSIVE collectRefsAny(_, _, _)
\* refs for every result, whatever its message id
collectRefsAny(channel, accountId, results) ==
  IF channel # "discord" \/ Len(results) = 0 THEN <<>>
  ELSE
    LET r == Head(results)
    IN <<[channelId |-> IF r.channelId # Null THEN r.channelId
                        ELSE Coalesce(r.chatId, <<>>),
          messageId |-> r.messageId, accountId |-> accountId]>>
       \o collectRefsAny(channel, accountId, Tail(results))

\* the refs one settled delivery pushes to discordMessages
RECURSIVE collectRefs(_, _, _)
collectRefs(channel, accountId, results) ==
  IF channel # "discord" \/ Len(results) = 0 THEN <<>>
  ELSE
    LET r == Head(results)
        ref == [channelId |-> IF r.channelId # Null THEN r.channelId
                              ELSE Coalesce(r.chatId, <<>>),
                messageId |-> r.messageId, accountId |-> accountId]
    IN (IF ~Falsy(r.messageId) /\ r.messageId # <<"unknown">> THEN <<ref>> ELSE <<>>)
       \o collectRefs(channel, accountId, Tail(results))

\* --------------------------------------------------- update coordinator
RECURSIVE startEdits(_, _, _)
startEdits(calls, msgs, embed) ==
  IF Len(msgs) = 0 THEN calls
  ELSE startEdits(Append(calls, [channelId |-> Head(msgs).channelId,
                                 messageId |-> Head(msgs).messageId,
                                 accountId |-> Head(msgs).accountId,
                                 embed |-> embed, status |-> "inflight"]),
                  Tail(msgs), embed)

RECURSIVE nonDiscordTargets(_, _)
nonDiscordTargets(targets, from) ==
  IF from > Len(targets) THEN <<>>
  ELSE (IF normalizeMessageChannel(targets[from].channel) # "discord"
        THEN <<from>> ELSE <<>>) \o nonDiscordTargets(targets, from + 1)

\* the second half of updateTargets, up to its await
sendTexts(eid, text) ==
  LET idxs == nonDiscordTargets(entries[eid].targets, 1)
  IN IF Len(idxs) > 0
     THEN /\ deliverCalls' = [deliverCalls EXCEPT ![eid] =
                 startDeliveries(@, "terminal", entries[eid].targets, idxs, text,
                                 Null, TRUE)]
          /\ run' = [run EXCEPT ![eid].update = "sending"]
     ELSE /\ deliverCalls' = deliverCalls
          /\ run' = [run EXCEPT ![eid].update = "done"]

\* an update coordinator that only sends the text, editing nothing
updateTargetsTextOnly(eid, kind, embed, text) ==
  LET event == [event |-> kind, returned |-> run[eid].requested = "returned"]
      idxs == AllIdxs(entries[eid].targets)
  IN /\ editCalls' = editCalls
     /\ deliverCalls' = [deliverCalls EXCEPT ![eid] =
            startDeliveries(@, "terminal", entries[eid].targets, idxs, text, Null, TRUE)]
     /\ run' = [run EXCEPT ![eid].update = "sending", ![eid].text = text,
                           ![eid].handoffs = Append(@, event)]

\* updateTargets up to its first await; the handoff is logged with its caller
\* (event) and whether handleRequested had returned by then
updateTargets(eid, kind, embed, text) ==
  LET event == [event |-> kind, returned |-> run[eid].requested = "returned"] IN
  IF Len(entries[eid].discordMessages) > 0
  THEN /\ editCalls' = [editCalls EXCEPT ![eid] =
              startEdits(@, entries[eid].discordMessages, embed)]
       /\ run' = [run EXCEPT ![eid].update = "editing", ![eid].text = text,
                             ![eid].handoffs = Append(@, event)]
       /\ deliverCalls' = deliverCalls
  ELSE /\ editCalls' = editCalls
       /\ LET idxs == nonDiscordTargets(entries[eid].targets, 1)
          IN IF Len(idxs) > 0
             THEN /\ deliverCalls' = [deliverCalls EXCEPT ![eid] =
                         startDeliveries(@, "terminal", entries[eid].targets, idxs,
                                         text, Null, TRUE)]
                  /\ run' = [run EXCEPT ![eid].update = "sending",
                                        ![eid].handoffs = Append(@, event)]
             ELSE /\ deliverCalls' = deliverCalls
                  /\ run' = [run EXCEPT ![eid].update = "done",
                                        ![eid].handoffs = Append(@, event)]

\* ----------------------------------------------------------------- inputs
tDiscord == [channel |-> "discord", to |-> <<"channel", ":", "c1">>,
             accountId |-> <<"work">>, threadId |-> Null]
tDiscordCaps == [tDiscord EXCEPT !.channel = "Discord"]
tTelegram == [channel |-> "telegram", to |-> <<"123">>,
              accountId |-> Null, threadId |-> Null]
tSlack == [channel |-> "slack", to |-> <<"U1">>, accountId |-> <<"acct">>,
           threadId |-> Null]
tBogus == [channel |-> "bogus", to |-> <<"x">>, accountId |-> Null, threadId |-> Null]
\* two targets that split "a:b:" differently between to and accountId
tColonTo == [channel |-> "slack", to |-> <<"a", ":", "b">>, accountId |-> Null,
             threadId |-> Null]
tColonAccount == [channel |-> "slack", to |-> <<"a">>, accountId |-> <<"b", ":">>,
                  threadId |-> Null]

ExecConfig(enabled, mode, agentFilter, sessionFilter, targets) ==
  << [enabled |-> enabled, mode |-> mode, agentFilter |-> agentFilter,
      sessionFilter |-> sessionFilter, targets |-> targets] >>

Ids == { <<"a">>, <<"b">> }

Request(id, agentId, sessionKey, expiresAtMs) ==
  [id |-> id, command |-> <<"echo hello">>, cwd |-> Null, host |-> Null,
   security |-> Null, ask |-> Null, agentId |-> agentId, sessionKey |-> sessionKey,
   expiresAtMs |-> expiresAtMs]

Call(config, request, sessionTarget) ==
  [config |-> config, request |-> request, sessionTarget |-> sessionTarget]

cDisabled == ExecConfig(FALSE, "both", <<>>, <<>>, <<tDiscord, tTelegram>>)
cSession == ExecConfig(TRUE, "absent", <<>>, <<>>, <<tTelegram>>)
cTargets == ExecConfig(TRUE, "targets", <<>>, <<>>, <<tDiscord, tTelegram>>)
cSlack == ExecConfig(TRUE, "targets", <<>>, <<>>, <<tBogus, tSlack>>)
cFiltered == ExecConfig(TRUE, "both", << <<"main">> >>, << <<"(">>, <<"^", "agent">> >>,
                        <<tDiscordCaps, tTelegram, tTelegram>>)

\* the calls of handleRequested the state machine is explored with:
\* <<config, agentId, sessionKey, sessionTarget, expiresAtMs>> for every id.
\* A request that expires at MaxTime + 1 outlives the clock.
Calls ==
  { Call(c[1], Request(id, c[2], c[3], c[5]), c[4]) :
      id \in Ids,
      c \in { << <<>>, <<"main">>, Null, <<tDiscord>>, MaxTime >>,
              << cDisabled, <<"main">>, Null, <<tDiscord>>, MaxTime >>,
              << cSession, <<"main">>, Null, <<>>, MaxTime >>,
              << cFiltered, Null, <<"agent", ":", "ops", ":", "x">>, <<tDiscord>>,
                 MaxTime >>,
              << cSession, <<"main">>, Null, <<tDiscord>>, MaxTime >>,
              << cSession, <<"main">>, Null, <<tDiscord>>, MaxTime + 1 >>,
              << cSlack, <<"main">>, Null, <<>>, MaxTime >>,
              << cSlack, <<"main">>, Null, <<>>, MaxTime + 1 >>,
              << cTargets, <<"main">>, Null, <<>>, MaxTime >>,
              << cTargets, <<"main">>, Null, <<>>, MaxTime + 1 >> } }

\* request ids are named in the order of their first use
NamedIds == IF reqCount = 0 THEN { <<"a">> } ELSE Ids

\* the entries whose initial fan-out called the sink more than once
Fanouts == Cardinality({eid \in DOMAIN entries :
                          \E k \in DOMAIN deliverCalls[eid] :
                            deliverCalls[eid][k].phase = "initial" /\ k > 1})

\* the resolved events: one decision per id
Resolutions ==
  { [id |-> <<"a">>, decision |-> "allow-once", resolvedBy |-> <<"admin">>],
    [id |-> <<"b">>, decision |-> "deny", resolvedBy |-> Null] }

\* what the sink may return for call k of entry eid
SinkResult(eid, k, messageId) ==
  [channel |-> deliverCalls[eid][k].channel, messageId |-> messageId,
   channelId |-> <<"ch", ToString(eid), ToString(k)>>, chatId |-> Null]

SinkResults(eid, k) ==
  IF deliverCalls[eid][k].channel = "discord"
  THEN { << SinkResult(eid, k, <<"unknown">>), SinkResult(eid, k, Null),
            SinkResult(eid, k, <<"msg", ToString(eid), ToString(k)>>) >> }
  ELSE IF deliverCalls[eid][k].channel = "telegram"
  THEN { << SinkResult(eid, k, <<"msg", ToString(eid), ToString(k)>>) >> }
  ELSE { <<>> }

\* ------------------------------------------------------------------ steps
Init ==
  /\ pending = {} /\ entries = <<>> /\ timers = <<>> /\ run = <<>>
  /\ deliverCalls = <<>> /\ editCalls = <<>> /\ now = 0 /\ reqCount = 0
  /\ faults = 0
  /\ last = [op |-> "init"]

\* handleRequested that starts the initial delivery without filing the entry
HandleRequestedUnfiled(config, request, sessionTarget) ==
  /\ reqCount < MaxRequests
  /\ reqCount' = reqCount + 1
  /\ last' = [op |-> "handleRequested", config |-> config, request |-> request,
              sessionTarget |-> sessionTarget]
  /\ UNCHANGED <<now, faults, pending>>
  /\ IF ~shouldForward(config, request) \/ Len(resolveTargets(config, sessionTarget)) = 0
     THEN UNCHANGED <<entries, timers, run, deliverCalls, editCalls>>
     ELSE
       LET targets == resolveTargets(config, sessionTarget)
           eid == Len(entries) + 1
           channelData == [embeds |-> <<formatExecApprovalEmbed(request)>>,
                           components |-> buildExecApprovalComponents(request.id)]
       IN /\ timers' = Append(timers, [id |-> request.id, state |-> "armed",
                                       due |-> now + Max(0, request.expiresAtMs - now)])
          /\ entries' = Append(entries, [request |-> request, targets |-> targets,
                                         timeoutId |-> eid, discordMessages |-> <<>>])
          /\ run' = Append(run, [requested |-> "awaiting", collected |-> <<>>,
                                 update |-> "none", text |-> <<>>, handoffs |-> <<>>])
          /\ deliverCalls' = Append(deliverCalls,
               startDeliveries(<<>>, "initial", targets, AllIdxs(targets),
                               buildRequestMessage(request, now), channelData, TRUE))
          /\ editCalls' = Append(editCalls, <<>>)

HandleRequested(config, request, sessionTarget) ==
  /\ reqCount < MaxRequests
  /\ reqCount' = reqCount + 1
  /\ last' = [op |-> "handleRequested", config |-> config, request |-> request,
              sessionTarget |-> sessionTarget]
  /\ UNCHANGED <<now, faults>>
  /\ IF ~shouldForward(config, request)
     THEN UNCHANGED <<pending, entries, timers, run, deliverCalls, editCalls>>
     ELSE
       LET targets == resolveTargets(config, sessionTarget)
           eid == Len(entries) + 1
           expiresInMs == Max(0, request.expiresAtMs - now)
           pendingEntry == [request |-> request, targets |-> targets,
                            timeoutId |-> eid, discordMessages |-> <<>>]
           registry == MapSet(pending, request.id, eid)
           filed == MapGet(registry, request.id) = {eid}
           channelData == [embeds |-> <<formatExecApprovalEmbed(request)>>,
                           components |-> buildExecApprovalComponents(request.id)]
       IN IF Len(targets) = 0
          THEN UNCHANGED <<pending, entries, timers, run, deliverCalls, editCalls>>
          ELSE /\ timers' = Append(timers, [id |-> request.id, state |-> "armed",
                                            due |-> now + expiresInMs])
               /\ entries' = Append(entries, pendingEntry)
               /\ pending' = registry
               /\ run' = Append(run, [requested |-> IF filed THEN "awaiting" ELSE "returned",
                                      collected |-> <<>>, update |-> "none",
                                      text |-> <<>>, handoffs |-> <<>>])
               /\ deliverCalls' = Append(deliverCalls,
                    IF filed
                    THEN startDeliveries(<<>>, "initial", targets, AllIdxs(targets),
                                         buildRequestMessage(request, now),
                                         channelData, filed)
                    ELSE <<>>)
               /\ editCalls' = Append(editCalls, <<>>)

\* a fan-out whose first failure rejects the whole operation
DeliverSettleFailFast(eid, k, outcome, results) ==
  /\ deliverCalls[eid][k].status = "inflight"
  /\ outcome = "failed" => faults < MaxFaults
  /\ faults' = IF outcome = "failed" THEN faults + 1 ELSE faults
  /\ deliverCalls' = [deliverCalls EXCEPT ![eid][k].status = outcome,
                        ![eid][k].results = IF outcome = "ok" THEN results ELSE <<>>]
  /\ run' = IF outcome = "failed"
            THEN IF deliverCalls[eid][k].phase = "initial"
                 THEN [run EXCEPT ![eid].requested = "thrown"]
                 ELSE [run EXCEPT ![eid].update = "thrown"]
            ELSE IF deliverCalls[eid][k].phase = "initial"
            THEN [run EXCEPT ![eid].collected =
                    @ \o collectRefs(deliverCalls[eid][k].channel,
                                     deliverCalls[eid][k].accountId, results)]
            ELSE run
  /\ last' = [op |-> "step"]
  /\ UNCHANGED <<pending, entries, timers, editCalls, now, reqCount>>

\* a fan-out that sends again, without asking the guard, when an initial
\* send fails
DeliverSettleRetries(eid, k, outcome, results) ==
  LET call == deliverCalls[eid][k]
      settled == [deliverCalls[eid] EXCEPT ![k].status = outcome,
                    ![k].results = IF outcome = "ok" THEN results ELSE <<>>]
  IN /\ call.status = "inflight"
     /\ outcome = "failed" => faults < MaxFaults
     /\ faults' = IF outcome = "failed" THEN faults + 1 ELSE faults
     /\ deliverCalls' = [deliverCalls EXCEPT ![eid] =
            IF call.phase = "initial" /\ outcome = "failed"
            THEN Append(settled, call)
            ELSE settled]
     /\ run' = IF call.phase = "initial" /\ outcome = "ok"
               THEN [run EXCEPT ![eid].collected =
                       @ \o collectRefs(call.channel, call.accountId, results)]
               ELSE run
     /\ last' = [op |-> "step"]
     /\ UNCHANGED <<pending, entries, timers, editCalls, now, reqCount>>

\* call k of entry eid of the delivery sink resolves with results, or throws
DeliverSettle(eid, k, outcome, results) ==
  /\ deliverCalls[eid][k].status = "inflight"
  /\ outcome = "failed" => faults < MaxFaults
  /\ faults' = IF outcome = "failed" THEN faults + 1 ELSE faults
  /\ deliverCalls' = [deliverCalls EXCEPT ![eid][k].status = outcome,
                        ![eid][k].results = IF outcome = "ok" THEN results ELSE <<>>]
  /\ run' = IF deliverCalls[eid][k].phase = "initial" /\ outcome = "ok"
            THEN [run EXCEPT ![eid].collected =
                    @ \o collectRefs(deliverCalls[eid][k].channel,
                                     deliverCalls[eid][k].accountId, results)]
            ELSE run
  /\ last' = [op |-> "step"]
  /\ UNCHANGED <<pending, entries, timers, editCalls, now, reqCount>>

\* handleRequested that does not await its deliveries
RequestedReturnEarly(eid) ==
  /\ run[eid].requested = "awaiting"
  /\ entries' = [entries EXCEPT ![eid].discordMessages = run[eid].collected]
  /\ run' = [run EXCEPT ![eid].requested = "returned"]
  /\ last' = [op |-> "step"]
  /\ UNCHANGED <<pending, timers, deliverCalls, editCalls, now, reqCount, faults>>

\* handleRequested after its await: pendingEntry.discordMessages = discordMessages
RequestedReturn(eid) ==
  /\ run[eid].requested = "awaiting"
  /\ InFlight(deliverCalls[eid], "initial") = {}
  /\ entries' = [entries EXCEPT ![eid].discordMessages = run[eid].collected]
  /\ run' = [run EXCEPT ![eid].requested = "returned"]
  /\ last' = [op |-> "step"]
  /\ UNCHANGED <<pending, timers, deliverCalls, editCalls, now, reqCount, faults>>

clearTimeout(tms, timeoutId) ==
  IF tms[timeoutId].state = "armed"
  THEN [tms EXCEPT ![timeoutId].state = "cleared"]
  ELSE tms

\* handleResolved that falls back to any pending entry when the id is unknown
HandleResolvedAnyEntry(resolved) ==
  LET found == IF MapGet(pending, resolved.id) = {}
               THEN {p.eid : p \in pending}
               ELSE MapGet(pending, resolved.id)
  IN /\ last' = [op |-> "handleResolved", id |-> resolved.id,
                 found |-> MapGet(pending, resolved.id)]
     /\ UNCHANGED <<now, reqCount, faults>>
     /\ IF found = {}
        THEN UNCHANGED <<pending, entries, timers, run, deliverCalls, editCalls>>
        ELSE \E eid \in found :
               /\ timers' = clearTimeout(timers, entries[eid].timeoutId)
               /\ pending' = MapDelete(pending, entries[eid].request.id)
               /\ updateTargets(eid, "resolved",
                    formatResolvedEmbed(entries[eid].request, resolved.decision,
                                        resolved.resolvedBy),
                    buildResolvedMessage(resolved))
               /\ UNCHANGED entries

HandleResolved(resolved) ==
  /\ last' = [op |-> "handleResolved", id |-> resolved.id,
              found |-> MapGet(pending, resolved.id)]
  /\ UNCHANGED <<now, reqCount, faults>>
  /\ IF MapGet(pending, resolved.id) = {}
     THEN UNCHANGED <<pending, entries, timers, run, deliverCalls, editCalls>>
     ELSE \E eid \in MapGet(pending, resolved.id) :
            /\ timers' = clearTimeout(timers, entries[eid].timeoutId)
            /\ pending' = MapDelete(pending, resolved.id)
            /\ updateTargets(eid, "resolved",
                 formatResolvedEmbed(entries[eid].request, resolved.decision,
                                     resolved.resolvedBy),
                 buildResolvedMessage(resolved))
            /\ UNCHANGED entries

\* a timer callback that expires the entry it captured, without the lookup
TimerFireCaptured(k) ==
  /\ timers[k].state = "armed"
  /\ now >= timers[k].due
  /\ timers' = [timers EXCEPT ![k].state = "fired"]
  /\ last' = [op |-> "step"]
  /\ UNCHANGED <<now, reqCount, entries, faults>>
  /\ pending' = MapDelete(pending, timers[k].id)
  /\ updateTargets(k, "expired", formatExpiredEmbed(entries[k].request),
                   buildExpiredMessage(entries[k].request))

\* the callback of the timer armed by the k-th accepted request
TimerFire(k) ==
  /\ timers[k].state = "armed"
  /\ now >= timers[k].due
  /\ timers' = [timers EXCEPT ![k].state = "fired"]
  /\ last' = [op |-> "step"]
  /\ UNCHANGED <<now, reqCount, entries, faults>>
  /\ IF MapGet(pending, timers[k].id) = {}
     THEN UNCHANGED <<pending, run, deliverCalls, editCalls>>
     ELSE \E eid \in MapGet(pending, timers[k].id) :
            /\ pending' = MapDelete(pending, timers[k].id)
            /\ updateTargets(eid, "expired", formatExpiredEmbed(entries[k].request),
                             buildExpiredMessage(entries[k].request))

\* fan-out edits whose first failure rejects the whole update
EditSettleFailFast(eid, k, outcome) ==
  /\ editCalls[eid][k].status = "inflight"
  /\ outcome = "failed" => faults < MaxFaults
  /\ faults' = IF outcome = "failed" THEN faults + 1 ELSE faults
  /\ editCalls' = [editCalls EXCEPT ![eid][k].status = outcome]
  /\ run' = IF outcome = "failed" THEN [run EXCEPT ![eid].update = "thrown"] ELSE run
  /\ last' = [op |-> "step"]
  /\ UNCHANGED <<pending, entries, timers, deliverCalls, now, reqCount>>

EditSettle(eid, k, outcome) ==
  /\ editCalls[eid][k].status = "inflight"
  /\ outcome = "failed" => faults < MaxFaults
  /\ faults' = IF outcome = "failed" THEN faults + 1 ELSE faults
  /\ editCalls' = [editCalls EXCEPT ![eid][k].status = outcome]
  /\ last' = [op |-> "step"]
  /\ UNCHANGED <<pending, entries, timers, run, deliverCalls, now, reqCount>>

\* updateTargets after await Promise.allSettled(edits)
UpdateContinue(eid) ==
  /\ run[eid].update = "editing"
  /\ \A k \in DOMAIN editCalls[eid] : editCalls[eid][k].status # "inflight"
  /\ sendTexts(eid, run[eid].text)
  /\ last' = [op |-> "step"]
  /\ UNCHANGED <<pending, entries, timers, editCalls, now, reqCount, faults>>

\* updateTargets after await deliverToTargets(...)
UpdateFinish(eid) ==
  /\ run[eid].update = "sending"
  /\ InFlight(deliverCalls[eid], "terminal") = {}
  /\ run' = [run EXCEPT ![eid].update = "done"]
  /\ last' = [op |-> "step"]
  /\ UNCHANGED <<pending, entries, timers, deliverCalls, editCalls, now, reqCount,
                 faults>>

RECURSIVE clearAll(_, _)
clearAll(tms, eids) ==
  IF eids = {} THEN tms
  ELSE LET eid == CHOOSE e \in eids : TRUE
       IN clearAll(clearTimeout(tms, entries[eid].timeoutId), eids \ {eid})

\* a stop that empties the registry and leaves the timers running
stopKeepTimers ==
  /\ timers' = timers
  /\ pending' = {}
  /\ last' = [op |-> "step"]
  /\ UNCHANGED <<entries, run, deliverCalls, editCalls, now, reqCount, faults>>

stop ==
  /\ timers' = clearAll(timers, {p.eid : p \in pending})
  /\ pending' = {}
  /\ last' = [op |-> "step"]
  /\ UNCHANGED <<entries, run, deliverCalls, editCalls, now, reqCount, faults>>

Tick ==
  /\ now < MaxTime
  /\ now' = now + 1
  /\ last' = [op |-> "step"]
  /\ UNCHANGED <<pending, entries, timers, run, deliverCalls, editCalls, reqCount,
                 faults>>

Next ==
  \/ \E c \in Calls :
       /\ c.request.id \in NamedIds
       /\ c.config = cTargets => Fanouts < MaxFanouts
       /\ HandleRequested(c.config, c.request, c.sessionTarget)
  \/ \E eid \in DOMAIN deliverCalls : \E k \in DOMAIN deliverCalls[eid] :
       \E results \in SinkResults(eid, k) : DeliverSettle(eid, k, "ok", results)
  \/ \E eid \in DOMAIN deliverCalls : \E k \in DOMAIN deliverCalls[eid] :
       DeliverSettle(eid, k, "failed", <<>>)
  \/ \E eid \in DOMAIN run : RequestedReturn(eid)
  \/ \E resolved \in Resolutions : HandleResolved(resolved)
  \/ \E k \in DOMAIN timers : TimerFire(k)
  \/ \E eid \in DOMAIN editCalls : \E k \in DOMAIN editCalls[eid] :
       EditSettle(eid, k, "ok")
  \/ \E eid \in DOMAIN editCalls : \E k \in DOMAIN editCalls[eid] :
       EditSettle(eid, k, "failed")
  \/ \E eid \in DOMAIN run : UpdateContinue(eid)
  \/ \E eid \in DOMAIN run : UpdateFinish(eid)
  \/ stop
  \/ Tick

Spec == Init /\ [][Next]_vars

\* ------------------------------- requests that nobody resolves and no stop
\* every timer is due within the clock's range, every pending call settles,
\* every due timer fires and every continuation runs
NextExpiry ==
  \/ \E c \in Calls :
       /\ c.request.id \in NamedIds
       /\ c.request.expiresAtMs <= MaxTime
       /\ c.config = cTargets => Fanouts < MaxFanouts
       /\ HandleRequested(c.config, c.request, c.sessionTarget)
  \/ \E eid \in DOMAIN deliverCalls : \E k \in DOMAIN deliverCalls[eid] :
       \E results \in SinkResults(eid, k) : DeliverSettle(eid, k, "ok", results)
  \/ \E eid \in DOMAIN deliverCalls : \E k \in DOMAIN deliverCalls[eid] :
       DeliverSettle(eid, k, "failed", <<>>)
  \/ \E eid \in DOMAIN run : RequestedReturn(eid)
  \/ \E k \in DOMAIN timers : TimerFire(k)
  \/ \E eid \in DOMAIN editCalls : \E k \in DOMAIN editCalls[eid] :
       EditSettle(eid, k, "ok")
  \/ \E eid \in DOMAIN editCalls : \E k \in DOMAIN editCalls[eid] :
       EditSettle(eid, k, "failed")
  \/ \E eid \in DOMAIN run : UpdateContinue(eid)
  \/ \E eid \in DOMAIN run : UpdateFinish(eid)
  \/ Tick

SpecExpiry ==
  /\ Init /\ [][NextExpiry]_vars
  /\ WF_vars(Tick)
  /\ WF_vars(\E k \in DOMAIN timers : TimerFire(k))
  /\ WF_vars(\E eid \in DOMAIN deliverCalls : \E k \in DOMAIN deliverCalls[eid] :
               \E results \in SinkResults(eid, k) : DeliverSettle(eid, k, "ok", results))
  /\ WF_vars(\E eid \in DOMAIN editCalls : \E k \in DOMAIN editCalls[eid] :
               EditSettle(eid, k, "ok"))
  /\ WF_vars(\E eid \in DOMAIN run : RequestedReturn(eid))
  /\ WF_vars(\E eid \in DOMAIN run : UpdateContinue(eid))
  /\ WF_vars(\E eid \in DOMAIN run : UpdateFinish(eid))

\* ------------------------------------- a sink that returns two message ids
\* one delivery to the editable channel sent as two messages
TwoMessages(eid, k) ==
  IF deliverCalls[eid][k].channel = "discord"
  THEN { << SinkResult(eid, k, <<"m1">>), SinkResult(eid, k, <<"m2">>) >> }
  ELSE { <<>> }

NextEdits ==
  \/ \E c \in Calls :
       /\ c.request.id \in NamedIds
       /\ c.config = cTargets \/ c.sessionTarget = <<tDiscord>>
       /\ c.config = cTargets => Fanouts < MaxFanouts
       /\ HandleRequested(c.config, c.request, c.sessionTarget)
  \/ \E eid \in DOMAIN deliverCalls : \E k \in DOMAIN deliverCalls[eid] :
       \E results \in TwoMessages(eid, k) : DeliverSettle(eid, k, "ok", results)
  \/ \E eid \in DOMAIN run : RequestedReturn(eid)
  \/ \E resolved \in Resolutions : HandleResolved(resolved)
  \/ \E k \in DOMAIN timers : TimerFire(k)
  \/ \E eid \in DOMAIN editCalls : \E k \in DOMAIN editCalls[eid] :
       EditSettle(eid, k, "ok")
  \/ \E eid \in DOMAIN editCalls : \E k \in DOMAIN editCalls[eid] :
       EditSettle(eid, k, "failed")
  \/ \E eid \in DOMAIN run : UpdateContinue(eid)
  \/ \E eid \in DOMAIN run : UpdateFinish(eid)
  \/ Tick

SpecEdits == Init /\ [][NextEdits]_vars

\* ------------------------------------------- the text of the notification
\* commands, one token per backtick and per line break
Backtick == "<backtick>"

LineBreak == "<line break>"

Commands ==
  { <<"echo hello">>,
    <<"echo ", Backtick, "uname", Backtick>>,
    <<"echo ", Backtick, "uname", Backtick, LineBreak, "echo done">>,
    <<"echo ", Backtick, Backtick, Backtick, "danger", Backtick, Backtick, Backtick>>,
    <<Backtick, Backtick, Backtick, Backtick, "x">> }

Expiries == {0, 499, 500, 1499, 1500, 6000}

FormatCalls ==
  { Call(cSession,
         [Request(id, <<"main">>, Null, expiresAtMs) EXCEPT !.command = command],
         <<tSlack>>) :
      id \in Ids, command \in Commands, expiresAtMs \in Expiries }

\* handleRequested on every command and expiry, at every reading of the clock
NextFormat ==
  \/ \E c \in FormatCalls :
       /\ c.request.id \in NamedIds
       /\ HandleRequested(c.config, c.request, c.sessionTarget)
  \/ Tick

SpecFormat == Init /\ [][NextFormat]_vars

\* ---------------------------------------- the resolver on every configuration
AllConfigs ==
  { <<>> } \cup
  { ExecConfig(on[1], mode, on[2], on[3], targets) :
      on \in { <<TRUE, <<>>, <<>> >>,
               <<TRUE, << <<"main">> >>, <<>> >>,
               <<TRUE, <<>>, << <<"(">>, <<"^", "agent", ":", "main">> >> >>,
               <<TRUE, << <<"main">> >>, << <<"main", ":", "main", "$">> >> >>,
               <<FALSE, <<>>, <<>> >>,
               <<FALSE, << <<"main">> >>, << <<"(">>, <<"^", "agent", ":", "main">> >> >> },
      mode \in {"absent", "session", "targets", "both"},
      targets \in { <<>>, <<tDiscordCaps, tTelegram, tTelegram>>, <<tBogus, tSlack>>,
                    <<tColonTo, tColonAccount>> } }

AllWho ==
  { << <<"main">>, <<"agent", ":", "main", ":", "main">> >>,
    << Null, <<"agent", ":", "main", ":", "main">> >>,
    << Null, <<"agent", ":", "ops", ":", "x">> >>,
    << <<>>, <<"agent", ":", "main", ":", "main">> >>,
    << Null, Null >> }

AllCalls ==
  { Call(config, Request(id, who[1], who[2], 0), sessionTarget) :
      config \in AllConfigs, id \in Ids, who \in AllWho,
      sessionTarget \in { <<>>, <<tDiscord>>, <<tSlack>> } }

\* a first request of the forwarder's usual kind, then handleRequested on
\* every configuration; no sink call ever settles
NextResolver ==
  \/ \E c \in (IF reqCount = 0 THEN Calls ELSE AllCalls) :
       /\ c.request.id \in NamedIds
       /\ HandleRequested(c.config, c.request, c.sessionTarget)
  \/ \E resolved \in Resolutions : HandleResolved(resolved)
  \/ \E k \in DOMAIN timers : TimerFire(k)
  \/ stop

SpecResolver == Init /\ [][NextResolver]_vars

\* ----------------------------------------------------------- the claims
IdOf(eid) == entries[eid].request.id

Registered(eid) == eid \in MapGet(pending, IdOf(eid))

Events(eid) == [i \in DOMAIN run[eid].handoffs |-> run[eid].handoffs[i].event]

CallsOf(eid, phase) == {k \in DOMAIN deliverCalls[eid] : deliverCalls[eid][k].phase = phase}

Effects == <<pending, entries, timers, run, deliverCalls, editCalls>>

\* C1: resolve and expiry exclude each other. An update (resolved or expired)
\* is handed only an entry that is in the registry and has had no outcome, and
\* the step that hands it over removes the id from the registry: so after a
\* resolve no timer run later updates the entry, and after an expiry a
\* handleResolved for the id updates nothing.
C1_MutualExclusion ==
  [][\A eid \in DOMAIN run :
       run'[eid].handoffs # run[eid].handoffs =>
         /\ Registered(eid)
         /\ run[eid].handoffs = <<>>
         /\ Len(run'[eid].handoffs) = 1
         /\ MapGet(pending', IdOf(eid)) = {}]_vars

\* an entry resolved whose timers have all run or been cancelled, and an entry
\* expired whose id handleResolved was then called with
C1_Witness ==
  /\ last.op = "handleResolved" /\ last.found = {}
  /\ \A k \in DOMAIN timers : timers[k].state # "armed"
  /\ \E e1 \in DOMAIN run, e2 \in DOMAIN run :
       /\ Events(e1) = <<"resolved">> /\ timers[e1].state = "cleared"
       /\ Events(e2) = <<"expired">> /\ IdOf(e2) = last.id

\* C2: the registry files at most one entry under an id, and no entry is
\* handed to updateTargets more than once.
C2_AtMostOnce ==
  /\ \A id \in Ids : Cardinality(MapGet(pending, id)) <= 1
  /\ \A eid \in DOMAIN run : Len(run[eid].handoffs) <= 1

\* the same id requested twice, the live entry expired by a timer
C2_Witness ==
  \E e1 \in DOMAIN run, e2 \in DOMAIN run :
    /\ e1 < e2 /\ IdOf(e1) = IdOf(e2)
    /\ Events(e1) = <<>> /\ Events(e2) = <<"expired">>
    /\ timers[e1].state = "fired" /\ timers[e2].state = "fired"

\* C3 (as claimed): handleRequested for an id that is pending changes nothing.
C3_DuplicateIsNoOp ==
  [][(/\ last'.op = "handleRequested"
      /\ reqCount' = reqCount + 1
      /\ MapGet(pending, last'.request.id) # {})
     => UNCHANGED Effects]_vars

\* C4: handleResolved for an id that is not in the registry changes nothing:
\* no edit call, no delivery call, the registry and every timer as they were.
C4_UnknownIdIsNoOp ==
  [][(/\ last'.op = "handleResolved"
      /\ MapGet(pending, last'.id) = {})
     => UNCHANGED Effects]_vars

\* a second handleResolved for a resolved id while another entry is pending
C4_Witness ==
  /\ last.op = "handleResolved" /\ last.found = {}
  /\ \E e1 \in DOMAIN run, e2 \in DOMAIN run :
       /\ IdOf(e1) = last.id /\ Events(e1) = <<"resolved">>
       /\ Registered(e2) /\ timers[e2].state = "armed"

IsRequestedStep == last'.op = "handleRequested" /\ reqCount' = reqCount + 1

Disabled(config) == config = <<>> \/ ~config[1].enabled

\* C5: with forwarding disabled, or the exec-approval configuration absent,
\* handleRequested calls no sink, arms no timer and files no entry.
C5_DisabledForwardsNothing ==
  [][(IsRequestedStep /\ Disabled(last'.config)) => UNCHANGED Effects]_vars

\* a disabled call with targets, filters and a session target while an entry
\* is pending
C5_Witness ==
  /\ last.op = "handleRequested"
  /\ last.config # <<>> /\ ~last.config[1].enabled
  /\ last.config[1].mode = "both" /\ last.config[1].targets # <<>>
  /\ last.sessionTarget # <<>>
  /\ \E eid \in DOMAIN run : Registered(eid) /\ IdOf(eid) # last.request.id

AgentOf(request) ==
  IF request.agentId # Null THEN request.agentId
  ELSE parseAgentSessionKey(request.sessionKey)

RejectedByAgentFilter(c, request) ==
  /\ c.agentFilter # <<>>
  /\ \/ AgentOf(request) \in {Null, <<>>}
     \/ \A i \in DOMAIN c.agentFilter : c.agentFilter[i] # AgentOf(request)

PatternMatches(sessionKey, pattern) ==
  \/ Includes(sessionKey, pattern)
  \/ ~RegExpSyntaxError(pattern) /\ RegExpTest(pattern, sessionKey)

RejectedBySessionFilter(c, request) ==
  /\ c.sessionFilter # <<>>
  /\ \/ request.sessionKey \in {Null, <<>>}
     \/ \A i \in DOMAIN c.sessionFilter :
          ~PatternMatches(request.sessionKey, c.sessionFilter[i])

ModeOf(c) == IF c.mode = "absent" THEN "session" ELSE c.mode

\* the candidates in the order the claim gives: session target, then explicit
Candidates(c, sessionTarget) ==
  (IF ModeOf(c) \in {"session", "both"}
   THEN [i \in DOMAIN sessionTarget |-> WithSource(sessionTarget[i], "session")]
   ELSE <<>>)
  \o (IF ModeOf(c) \in {"targets", "both"}
      THEN [i \in DOMAIN c.targets |-> WithSource(c.targets[i], "target")]
      ELSE <<>>)

\* C6: a request rejected by the agent filter or the session filter, or one
\* that resolves to no target, arms no timer, files no entry and sends nothing.
C6_RejectedForwardsNothing ==
  [][(/\ IsRequestedStep
      /\ ~Disabled(last'.config)
      /\ \/ RejectedByAgentFilter(last'.config[1], last'.request)
         \/ RejectedBySessionFilter(last'.config[1], last'.request)
         \/ Candidates(last'.config[1], last'.sessionTarget) = <<>>)
     => UNCHANGED Effects]_vars

\* a request whose agent id, derived from its session key, is not in the
\* filter, called while an entry is pending
C6_Witness ==
  /\ last.op = "handleRequested" /\ ~Disabled(last.config)
  /\ last.request.agentId = Null
  /\ AgentOf(last.request) = <<"ops">>
  /\ RejectedByAgentFilter(last.config[1], last.request)
  /\ ~RejectedBySessionFilter(last.config[1], last.request)
  /\ Candidates(last.config[1], last.sessionTarget) # <<>>
  /\ \E eid \in DOMAIN run : Registered(eid)

\* the dedup key: (normalizedChannel, to, accountId, threadId), an absent
\* accountId or threadId counting as one value
DedupKey(target) ==
  <<normalizeMessageChannel(target.channel), target.to,
    Coalesce(target.accountId, <<>>), Coalesce(target.threadId, <<>>)>>

FirstOccurrences(cand) ==
  {i \in DOMAIN cand : \A j \in 1..(i - 1) : DedupKey(cand[j]) # DedupKey(cand[i])}

\* C7: the entry filed for a request that passes the filters lists the session
\* target (modes session, both and absent), then the explicit targets (modes
\* targets and both), each candidate kept exactly when no earlier candidate
\* has its dedup key, in candidate order.
C7_TargetsSessionFirstDeduped ==
  (/\ last.op = "handleRequested" /\ ~Disabled(last.config)
   /\ ~RejectedByAgentFilter(last.config[1], last.request)
   /\ ~RejectedBySessionFilter(last.config[1], last.request)
   /\ Candidates(last.config[1], last.sessionTarget) # <<>>)
  => /\ Len(entries) >= 1
     /\ entries[Len(entries)].request = last.request
     /\ LET targets == entries[Len(entries)].targets
            cand == Candidates(last.config[1], last.sessionTarget)
            keep == FirstOccurrences(cand)
        IN /\ Len(targets) = Cardinality(keep)
           /\ \A i \in keep : targets[Cardinality({j \in keep : j <= i})] = cand[i]

\* mode both: a session target, an explicit duplicate of it under another
\* spelling of the channel, and a repeated explicit target
C7_Witness ==
  /\ last.op = "handleRequested" /\ ~Disabled(last.config)
  /\ last.config[1].mode = "both"
  /\ Len(entries) >= 1 /\ entries[Len(entries)].request = last.request
  /\ Len(Candidates(last.config[1], last.sessionTarget)) = 4
  /\ Len(entries[Len(entries)].targets) = 2
  /\ entries[Len(entries)].targets[1].source = "session"
  /\ entries[Len(entries)].targets[2].source = "target"

ChannelOf(eid, ti) == normalizeMessageChannel(entries[eid].targets[ti].channel)

\* every deliverable target of the fan-out has its sink call
Attempted(eid, phase) ==
  \A ti \in DOMAIN entries[eid].targets :
    (/\ isDeliverableMessageChannel(ChannelOf(eid, ti))
     /\ phase = "terminal" => ChannelOf(eid, ti) # "discord")
    => \E j \in CallsOf(eid, phase) : deliverCalls[eid][j].ti = ti

\* C8: a sink call that fails, in the initial or the terminal fan-out, leaves
\* the sibling calls of the fan-out as they are, every deliverable target of
\* the fan-out attempted, the handler that awaits the fan-out waiting as
\* before, and the registry, the entries and the timers untouched.
C8_FailureIsolated ==
  [][\A eid \in DOMAIN deliverCalls : \A k \in DOMAIN deliverCalls[eid] :
       (deliverCalls[eid][k].status = "inflight"
        /\ deliverCalls'[eid][k].status = "failed")
       => /\ UNCHANGED <<pending, timers, entries, editCalls>>
          /\ run'[eid].requested = run[eid].requested
          /\ run'[eid].update = run[eid].update
          /\ \A j \in DOMAIN deliverCalls[eid] :
               j # k => deliverCalls'[eid][j] = deliverCalls[eid][j]
          /\ Attempted(eid, deliverCalls[eid][k].phase)]_vars

\* the send to the first target failed, the one to the second went through,
\* handleRequested returned and the entry is pending with its timer armed
C8_Witness ==
  \E eid \in DOMAIN run :
    /\ Len(entries[eid].targets) = 2
    /\ CallsOf(eid, "initial") = {1, 2}
    /\ deliverCalls[eid][1].status = "failed"
    /\ deliverCalls[eid][2].status = "ok"
    /\ run[eid].requested = "returned"
    /\ Registered(eid)
    /\ timers[entries[eid].timeoutId].state = "armed"

\* the results of the initial sink calls that carry a usable message id
UsableRefs(eid) ==
  {p \in CallsOf(eid, "initial") \X (1..3) :
     /\ deliverCalls[eid][p[1]].status = "ok"
     /\ deliverCalls[eid][p[1]].channel = "discord"
     /\ p[2] <= Len(deliverCalls[eid][p[1]].results)
     /\ deliverCalls[eid][p[1]].results[p[2]].messageId
          \notin {Null, <<>>, <<"unknown">>}}

TerminalCallsTo(eid, ti) ==
  {k \in CallsOf(eid, "terminal") :
     /\ deliverCalls[eid][k].ti = ti
     /\ deliverCalls[eid][k].to = entries[eid].targets[ti].to
     /\ deliverCalls[eid][k].channel = ChannelOf(eid, ti)}

\* C9: once the terminal update of an entry is done, each target off the
\* editable channel was sent exactly one fresh text and no target on the
\* editable channel was sent any; and with two targets, the editable one
\* having returned a handle, a resolve makes exactly one edit call and
\* exactly one fresh delivery call, to the other target.
C9_TerminalFanout ==
  \A eid \in DOMAIN run :
    (run[eid].handoffs # <<>> /\ run[eid].update = "done")
    => /\ \A ti \in DOMAIN entries[eid].targets :
            IF ChannelOf(eid, ti) # "discord"
            THEN Cardinality(TerminalCallsTo(eid, ti)) = 1
            ELSE \A k \in CallsOf(eid, "terminal") : deliverCalls[eid][k].ti # ti
       /\ (/\ Len(entries[eid].targets) = 2
           /\ ChannelOf(eid, 1) = "discord" /\ ChannelOf(eid, 2) # "discord"
           /\ UsableRefs(eid) # {}
           /\ Events(eid) = <<"resolved">>)
          => /\ Len(editCalls[eid]) = 1
             /\ Cardinality(CallsOf(eid, "terminal")) = 1
             /\ Cardinality(TerminalCallsTo(eid, 2)) = 1

ResolutionOf(id) == CHOOSE r \in Resolutions : r.id = id

TerminalEmbed(eid) ==
  IF Events(eid) = <<"resolved">>
  THEN formatResolvedEmbed(entries[eid].request, ResolutionOf(IdOf(eid)).decision,
                           ResolutionOf(IdOf(eid)).resolvedBy)
  ELSE formatExpiredEmbed(entries[eid].request)

EditsFor(eid, p) ==
  {i \in DOMAIN editCalls[eid] :
     /\ editCalls[eid][i].messageId = deliverCalls[eid][p[1]].results[p[2]].messageId
     /\ editCalls[eid][i].channelId = deliverCalls[eid][p[1]].results[p[2]].channelId
     /\ editCalls[eid][i].accountId = entries[eid].targets[deliverCalls[eid][p[1]].ti].accountId
     /\ editCalls[eid][i].embed = TerminalEmbed(eid)}

\* C10: when handleRequested had returned before the terminal outcome, the
\* edit calls of the entry are exactly one per usable message id the initial
\* sink calls returned, each with that result's channel id and message id,
\* its target's account id and the resolved (on expiry the expired) embed;
\* an entry with one editable target and one such id has one edit call and
\* no terminal delivery call.
C10_EditsEveryRefOnce ==
  \A eid \in DOMAIN run :
    (run[eid].handoffs # <<>> /\ run[eid].handoffs[1].returned)
    => /\ Len(editCalls[eid]) = Cardinality(UsableRefs(eid))
       /\ \A p \in UsableRefs(eid) : Cardinality(EditsFor(eid, p)) = 1
       /\ (/\ Len(entries[eid].targets) = 1 /\ ChannelOf(eid, 1) = "discord"
           /\ Cardinality(UsableRefs(eid)) = 1)
          => Len(editCalls[eid]) = 1 /\ CallsOf(eid, "terminal") = {}

\* a request with one editable target expired after its delivery returned a
\* handle, and the edit went through
C10_Witness ==
  \E eid \in DOMAIN run :
    /\ Len(entries[eid].targets) = 1 /\ ChannelOf(eid, 1) = "discord"
    /\ Events(eid) = <<"expired">> /\ run[eid].handoffs[1].returned
    /\ Cardinality(UsableRefs(eid)) = 1
    /\ Len(editCalls[eid]) = 1 /\ editCalls[eid][1].status = "ok"
    /\ editCalls[eid][1].embed.color = "gray"
    /\ run[eid].update = "done"

\* C11: the step of handleRequested that starts the initial sink calls of an
\* entry leaves that entry in the registry under its id with its timer armed;
\* and a handleResolved for the id of a registered entry whose initial
\* delivery is in flight removes the entry, clears its timer and hands it to
\* the update as resolved.
C11_RegisteredBeforeDelivery ==
  [][/\ \A eid \in DOMAIN deliverCalls' :
          (eid \notin DOMAIN deliverCalls /\ deliverCalls'[eid] # <<>>)
          => /\ MapGet(pending', entries'[eid].request.id) = {eid}
             /\ timers'[entries'[eid].timeoutId].state = "armed"
     /\ \A eid \in DOMAIN run :
          (/\ last'.op = "handleResolved" /\ last'.id = IdOf(eid)
           /\ Registered(eid)
           /\ InFlight(deliverCalls[eid], "initial") # {})
          => /\ MapGet(pending', IdOf(eid)) = {}
             /\ timers[entries[eid].timeoutId].state = "armed"
             /\ timers'[entries[eid].timeoutId].state = "cleared"
             /\ run[eid].handoffs = <<>>
             /\ [i \in DOMAIN run'[eid].handoffs |-> run'[eid].handoffs[i].event]
                  = <<"resolved">>]_vars

\* a handleResolved that found an entry with one of its two initial sends
\* still in flight
C11_Witness ==
  /\ last.op = "handleResolved" /\ last.found # {}
  /\ \E eid \in last.found :
       /\ CallsOf(eid, "initial") = {1, 2}
       /\ deliverCalls[eid][1].status = "ok"
       /\ deliverCalls[eid][2].status = "inflight"
       /\ run[eid].requested = "awaiting"
       /\ Events(eid) = <<"resolved">>
       /\ ~Registered(eid)
       /\ timers[entries[eid].timeoutId].state = "cleared"

\* an entry taken out of the registry by stop: its timer was cleared and it
\* was never handed to the update
Stopped(eid) ==
  timers[entries[eid].timeoutId].state = "cleared" /\ run[eid].handoffs = <<>>

\* C12: a step that empties a non-empty registry without handing any entry to
\* the update (stop) clears the timer of every entry that was registered and
\* makes no sink call and no edit call; an entry removed that way is never
\* handed to the update afterwards, and a handleResolved for its id, unless
\* the id was requested again, changes nothing.
C12_StopCancelsAll ==
  [][/\ (pending # {} /\ pending' = {} /\ run' = run)
        => /\ \A eid \in DOMAIN run :
                Registered(eid) => timers'[entries[eid].timeoutId].state = "cleared"
           /\ UNCHANGED <<entries, deliverCalls, editCalls>>
     /\ \A eid \in DOMAIN run :
          Stopped(eid) => run'[eid].handoffs = <<>> /\ ~Registered(eid)
     /\ (/\ last'.op = "handleResolved"
         /\ MapGet(pending, last'.id) = {}
         /\ \E eid \in DOMAIN run : Stopped(eid) /\ IdOf(eid) = last'.id)
        => UNCHANGED Effects]_vars

\* two entries stopped with sends in flight, the clock past the due time of
\* their timers, and then a handleResolved for the id of one of them
C12_Witness ==
  /\ last.op = "handleResolved" /\ last.found = {}
  /\ pending = {}
  /\ \E e1 \in DOMAIN run, e2 \in DOMAIN run :
       /\ e1 # e2 /\ Stopped(e1) /\ Stopped(e2)
       /\ IdOf(e1) = last.id /\ IdOf(e2) # last.id
       /\ now >= timers[entries[e1].timeoutId].due
       /\ InFlight(deliverCalls[e1], "initial") # {}
       /\ editCalls[e1] = <<>> /\ CallsOf(e1, "terminal") = {}

\* the expired update of entry eid is done; for a single target off the
\* editable channel: one delivery at request time, one more at expiry with
\* the expired text, and no edit
ExpiredOnce(eid) ==
  /\ eid \in DOMAIN run
  /\ ~Registered(eid)
  /\ timers[entries[eid].timeoutId].state = "fired"
  /\ Events(eid) = <<"expired">>
  /\ run[eid].update = "done"
  /\ (Len(entries[eid].targets) = 1 /\ ChannelOf(eid, 1) \in {"slack", "telegram"})
     => /\ Cardinality(CallsOf(eid, "initial")) = 1
        /\ Cardinality(CallsOf(eid, "terminal")) = 1
        /\ \A k \in CallsOf(eid, "terminal") :
             deliverCalls[eid][k].text = buildExpiredMessage(entries[eid].request)
        /\ editCalls[eid] = <<>>

\* C13: when handleResolved and stop are never called, every request that
\* was registered is eventually expired: its timer fires, its entry leaves
\* the registry and is handed to the update exactly once, as expired.
C13_ExpiryLiveness ==
  \A eid \in 1..MaxRequests : (eid \in DOMAIN run) ~> ExpiredOnce(eid)

\* the same for the requests whose id no other request uses
C13_ExpiryLivenessDistinctIds ==
  \A eid \in 1..MaxRequests :
    (eid \in DOMAIN run) ~>
      (\/ ExpiredOnce(eid)
      \/ /\ eid \in DOMAIN run
         /\ \E e2 \in DOMAIN run : e2 # eid /\ IdOf(e2) = IdOf(eid))

CommandOfText(eid) == entries[eid].request.command

RECURSIVE LongestRun(_, _, _)
\* the longest run of backticks in command; len is the length of the run
\* that ends just before the tokens still to read
LongestRun(command, len, best) ==
  IF Len(command) = 0 THEN Max(len, best)
  ELSE IF Head(command) = Backtick
       THEN LongestRun(Tail(command), len + 1, Max(len + 1, best))
       ELSE LongestRun(Tail(command), 0, best)

Fence(n) == [i \in 1..n |-> Backtick]

SingleLine(command) == ~InSeq(LineBreak, command)

\* C14: the text sent for a request whose command is a single line without
\* backticks has the line "Command: " followed by the command between two
\* backticks.
C14_InlineCode ==
  \A eid \in DOMAIN run :
    (/\ CallsOf(eid, "initial") # {}
     /\ SingleLine(CommandOfText(eid)) /\ ~InSeq(Backtick, CommandOfText(eid)))
    => \A k \in CallsOf(eid, "initial") :
         InSeq(<<"Command: ", Backtick>> \o CommandOfText(eid) \o <<Backtick>>,
               deliverCalls[eid][k].text)

\* C15: the text sent for a request whose command has a line break or three
\* backticks in a row has "Command:", then on lines of their own a fence,
\* the command and the same fence, the fence being three or more backticks
\* and longer than every run of backticks in the command.
C15_FencedBlock ==
  \A eid \in DOMAIN run :
    (/\ CallsOf(eid, "initial") # {}
     /\ \/ ~SingleLine(CommandOfText(eid))
        \/ LongestRun(CommandOfText(eid), 0, 0) >= 3)
    => \A k \in CallsOf(eid, "initial") :
         \E n \in 3..(Len(CommandOfText(eid)) + 3) :
           /\ n > LongestRun(CommandOfText(eid), 0, 0)
           /\ Includes(Join(deliverCalls[eid][k].text, LineBreak),
                       <<"Command:", LineBreak>> \o Fence(n) \o <<LineBreak>>
                       \o CommandOfText(eid) \o <<LineBreak>> \o Fence(n))

\* C16: in the entry filed for a request that passes the filters, the dedup
\* key of every candidate target occurs exactly once among the entry's
\* targets: a candidate is dropped exactly when an earlier one agrees with it
\* on channel, to, accountId and threadId.
C16_DedupKeyIsTuple ==
  (/\ last.op = "handleRequested" /\ ~Disabled(last.config)
   /\ ~RejectedByAgentFilter(last.config[1], last.request)
   /\ ~RejectedBySessionFilter(last.config[1], last.request)
   /\ Candidates(last.config[1], last.sessionTarget) # <<>>)
  => /\ Len(entries) >= 1
     /\ entries[Len(entries)].request = last.request
     /\ LET targets == entries[Len(entries)].targets
            cand == Candidates(last.config[1], last.sessionTarget)
        IN \A i \in DOMAIN cand :
             Cardinality({k \in DOMAIN targets :
                            DedupKey(targets[k]) = DedupKey(cand[i])}) = 1

FailedEdits(eid) == {k \in DOMAIN editCalls[eid] : editCalls[eid][k].status = "failed"}

\* C17: an edit call that fails leaves the other edit calls of the update as
\* they are, every message ref of the entry with its edit call, and the
\* update waiting for its edits as before; once the update is done after a
\* failed edit, every deliverable target off the editable channel has its
\* fresh text send.
C17_EditFailureIsolated ==
  [][/\ \A eid \in DOMAIN editCalls : \A k \in DOMAIN editCalls[eid] :
          (editCalls[eid][k].status = "inflight"
           /\ editCalls'[eid][k].status = "failed")
          => /\ UNCHANGED <<pending, timers, entries, deliverCalls, run>>
             /\ run[eid].update = "editing"
             /\ Len(editCalls[eid]) = Len(entries[eid].discordMessages)
             /\ \A j \in DOMAIN editCalls[eid] :
                  j # k => editCalls'[eid][j] = editCalls[eid][j]
     /\ \A eid \in DOMAIN run :
          (FailedEdits(eid) # {} /\ run[eid].update = "editing"
           /\ run'[eid].update # "editing")
          => /\ run'[eid].update \in {"sending", "done"}
             /\ Attempted(eid, "terminal")']_vars

\* a resolve whose first of two edits failed: the second edit went through,
\* the text to the telegram target was sent and the update is done
C17_Witness ==
  \E eid \in DOMAIN run :
    /\ Events(eid) = <<"resolved">>
    /\ Len(editCalls[eid]) = 2
    /\ editCalls[eid][1].status = "failed"
    /\ editCalls[eid][2].status = "ok"
    /\ run[eid].update = "done"
    /\ \E k \in CallsOf(eid, "terminal") :
         deliverCalls[eid][k].channel = "telegram" /\ deliverCalls[eid][k].status = "ok"

InitialCalls(calls) == {k \in DOMAIN calls : calls[k].phase = "initial"}

\* C18: a step that starts an initial sink call of an entry leaves that entry
\* in the registry under its id, and starts none for an entry that was
\* already out of the registry: no initial send starts after the entry was
\* removed by a resolve, an expiry or stop.
C18_NoInitialSendAfterRemoval ==
  [][\A eid \in DOMAIN deliverCalls' :
       (InitialCalls(deliverCalls'[eid])
          # (IF eid \in DOMAIN deliverCalls THEN InitialCalls(deliverCalls[eid]) ELSE {}))
       => /\ MapGet(pending', entries'[eid].request.id) = {eid}
          /\ eid \in DOMAIN deliverCalls => Registered(eid)]_vars

\* an entry resolved while both of its initial sends were in flight; both
\* have settled since and handleRequested has returned
C18_Witness ==
  \E eid \in DOMAIN run :
    /\ Len(entries[eid].targets) = 2
    /\ Events(eid) = <<"resolved">> /\ ~run[eid].handoffs[1].returned
    /\ run[eid].collected # <<>> /\ editCalls[eid] = <<>>
    /\ run[eid].requested = "returned"
    /\ CallsOf(eid, "initial") = {1, 2}
    /\ \A k \in CallsOf(eid, "initial") : deliverCalls[eid][k].status = "ok"

\* C19: handleRequested has returned only when none of the initial sink
\* calls it started is in flight, and an update (of handleResolved or of the
\* expiry) is done only when none of its edit calls and none of its fresh
\* delivery calls is in flight.
C19_AllAwaited ==
  \A eid \in DOMAIN run :
    /\ run[eid].requested = "returned" => InFlight(deliverCalls[eid], "initial") = {}
    /\ run[eid].update = "done"
       => /\ \A k \in DOMAIN editCalls[eid] : editCalls[eid][k].status # "inflight"
          /\ InFlight(deliverCalls[eid], "terminal") = {}

\* a request with two targets, one send failed; resolved after it returned:
\* the edit and the fresh text have settled and the update is done
C19_Witness ==
  \E eid \in DOMAIN run :
    /\ run[eid].requested = "returned" /\ run[eid].update = "done"
    /\ Events(eid) = <<"resolved">>
    /\ CallsOf(eid, "initial") = {1, 2}
    /\ deliverCalls[eid][1].status = "ok" /\ deliverCalls[eid][2].status = "failed"
    /\ Len(editCalls[eid]) = 1 /\ editCalls[eid][1].status = "ok"
    /\ Cardinality(CallsOf(eid, "terminal")) = 1

\* C20: from the moment an entry is handed to the update, the fresh text
\* sends to its deliverable targets off the editable channel are started,
\* whether or not the edit calls have settled.
C20_EditsAndSendsConcurrent ==
  \A eid \in DOMAIN run : run[eid].handoffs # <<>> => Attempted(eid, "terminal")

\* the text of the first initial sink call of the newest entry
NewestText == deliverCalls[Len(entries)][1].text

\* C21: right after a handleRequested that forwarded, the text it sent has
\* the line "Expires in: Ns" where N is 0 when expiresAtMs - now is not
\* positive and otherwise the integer within half a second of the remaining
\* time, the half counting upwards: 1000 N - 500 <= remaining < 1000 N + 500.
C21_ExpiresInRounded ==
  (/\ last.op = "handleRequested" /\ Len(entries) >= 1
   /\ entries[Len(entries)].request = last.request
   /\ CallsOf(Len(entries), "initial") # {})
  => LET remaining == last.request.expiresAtMs - now
     IN \E N \in 0..(last.request.expiresAtMs \div 1000 + 1) :
          /\ InSeq(<<"Expires in: ", ToString(N), "s">>, NewestText)
          /\ remaining <= 0 => N = 0
          /\ remaining > 0 => (1000 * N - 500 <= remaining /\ remaining < 1000 * N + 500)
          /\ \A M \in 0..(last.request.expiresAtMs \div 1000 + 1) :
               M # N => ~InSeq(<<"Expires in: ", ToString(M), "s">>, NewestText)

\* a request with exactly a second and a half left is announced with 2s
C21_Witness ==
  /\ last.op = "handleRequested" /\ now = 0 /\ Len(entries) = 2
  /\ last.request.expiresAtMs = 1500
  /\ entries[2].request = last.request
  /\ InSeq(<<"Expires in: ", "2", "s">>, deliverCalls[2][1].text)
  /\ entries[1].request.expiresAtMs = 499
  /\ InSeq(<<"Expires in: ", "0", "s">>, deliverCalls[1][1].text)

Undeliverable(eid) ==
  {ti \in DOMAIN entries[eid].targets : ~isDeliverableMessageChannel(ChannelOf(eid, ti))}

\* C22: for an entry with a target on a channel that is not deliverable, the
\* sink is never called for that target, every deliverable target has its
\* initial send, and once the update sends its texts every deliverable
\* target off the editable channel has its terminal send.
C22_UndeliverableSkipped ==
  \A eid \in DOMAIN run :
    Undeliverable(eid) # {}
    => /\ \A k \in DOMAIN deliverCalls[eid] :
            deliverCalls[eid][k].ti \notin Undeliverable(eid)
       /\ Attempted(eid, "initial")
       /\ run[eid].update \in {"sending", "done"} => Attempted(eid, "terminal")
       /\ run[eid].requested \in {"awaiting", "returned"}
       /\ run[eid].update \in {"none", "editing", "sending", "done"}

\* targets [bogus, slack]: the request and, after the resolve, the text went
\* to slack alone, and both handlers completed
C22_Witness ==
  \E eid \in DOMAIN run :
    /\ Undeliverable(eid) = {1} /\ Len(entries[eid].targets) = 2
    /\ Events(eid) = <<"resolved">>
    /\ run[eid].requested = "returned" /\ run[eid].update = "done"
    /\ Len(deliverCalls[eid]) = 2
    /\ \A k \in DOMAIN deliverCalls[eid] :
         deliverCalls[eid][k].ti = 2 /\ deliverCalls[eid][k].status = "ok"

RefsFor(eid, p) ==
  {i \in DOMAIN run[eid].collected :
     /\ run[eid].collected[i].messageId = deliverCalls[eid][p[1]].results[p[2]].messageId
     /\ run[eid].collected[i].channelId = deliverCalls[eid][p[1]].results[p[2]].channelId
     /\ run[eid].collected[i].accountId
          = entries[eid].targets[deliverCalls[eid][p[1]].ti].accountId}

\* C23: the refs collected by the initial delivery of an entry are exactly
\* one for each result of a successful send to the editable channel whose
\* message id is present and not "unknown", and nothing else; the list
\* handleRequested stores on the entry is that list.
C23_RefsCollected ==
  \A eid \in DOMAIN run :
    /\ Len(run[eid].collected) = Cardinality(UsableRefs(eid))
    /\ \A p \in UsableRefs(eid) : Cardinality(RefsFor(eid, p)) = 1
    /\ run[eid].requested = "returned"
       => entries[eid].discordMessages = run[eid].collected

\* a send to discord that returned three results, one of them with a usable
\* message id, and a send to telegram that returned a message id: one ref
C23_Witness ==
  \E eid \in DOMAIN run :
    /\ CallsOf(eid, "initial") = {1, 2}
    /\ deliverCalls[eid][1].channel = "discord" /\ deliverCalls[eid][1].status = "ok"
    /\ Len(deliverCalls[eid][1].results) = 3
    /\ deliverCalls[eid][2].channel = "telegram" /\ deliverCalls[eid][2].status = "ok"
    /\ deliverCalls[eid][2].results # <<>>
    /\ run[eid].requested = "returned"
    /\ Len(entries[eid].discordMessages) = 1

\* C24 (as claimed): when the terminal outcome of an entry came while its
\* initial delivery was in flight, then once the delivery and the update are
\* both over every usable message id the delivery returned has been edited
\* to the resolved or expired state.
C24_InFlightRefsEdited ==
  \A eid \in DOMAIN run :
    (/\ run[eid].handoffs # <<>> /\ ~run[eid].handoffs[1].returned
     /\ run[eid].requested = "returned" /\ run[eid].update = "done")
    => \A p \in UsableRefs(eid) : EditsFor(eid, p) # {}

Deliverable(eid) ==
  {ti \in DOMAIN entries[eid].targets : isDeliverableMessageChannel(ChannelOf(eid, ti))}

EditedTarget(eid, ti) ==
  \E p \in UsableRefs(eid) : deliverCalls[eid][p[1]].ti = ti /\ EditsFor(eid, p) # {}

\* C25 (as claimed): once the terminal update of an entry is done, every
\* deliverable target has had a terminal notification: an edit of a message
\* its initial send returned, or else a fresh text; so a target on the
\* editable channel whose initial send failed has the fresh text. Stated for
\* the outcomes that come after handleRequested has returned, where every
\* handle the initial delivery recorded is on the entry.
C25_EveryTargetNotified ==
  \A eid \in DOMAIN run :
    (/\ run[eid].handoffs # <<>> /\ run[eid].handoffs[1].returned
     /\ run[eid].update = "done")
    => \A ti \in Deliverable(eid) :
         EditedTarget(eid, ti) \/ TerminalCallsTo(eid, ti) # {}

ExpiredInStep(eid) ==
  /\ run[eid].handoffs = <<>>
  /\ run'[eid].handoffs # <<>>
  /\ run'[eid].handoffs[1].event = "expired"

\* C26 (as claimed): an entry is given the expired update only by the run of
\* its own timer, so not before its own delay has elapsed, and every armed
\* timer is the timer of an entry that is in the registry.
C26_TimerActsOnOwnEntry ==
  [][/\ \A eid \in DOMAIN run :
          ExpiredInStep(eid)
          => /\ timers[entries[eid].timeoutId].state = "armed"
             /\ timers'[entries[eid].timeoutId].state = "fired"
             /\ now >= timers[entries[eid].timeoutId].due
     /\ \A eid \in DOMAIN entries' :
          timers'[entries'[eid].timeoutId].state = "armed"
          => eid \in MapGet(pending', entries'[eid].request.id)]_vars

\* the parts of C26 taken one at a time
C26_ExpiredByOwnTimer ==
  [][\A eid \in DOMAIN run :
       ExpiredInStep(eid) => timers'[entries[eid].timeoutId].state = "fired"
                             /\ timers[entries[eid].timeoutId].state = "armed"]_vars

C26_NotBeforeOwnDelay ==
  [][\A eid \in DOMAIN run :
       ExpiredInStep(eid) => now >= timers[entries[eid].timeoutId].due]_vars

C26_ArmedIsRegistered ==
  \A eid \in DOMAIN entries :
    timers[entries[eid].timeoutId].state = "armed" => Registered(eid)

\* the ids a step of handleRequested, handleResolved or expiry is about
OpIds ==
  IF IsRequestedStep THEN {last'.request.id}
  ELSE IF last'.op = "handleResolved" THEN {last'.id}
  ELSE {timers[k].id : k \in {t \in DOMAIN timers :
                                timers[t].state = "armed" /\ timers'[t].state = "fired"}}

EntryUnchanged(eid) ==
  /\ entries'[eid] = entries[eid]
  /\ timers'[entries[eid].timeoutId] = timers[entries[eid].timeoutId]
  /\ run'[eid] = run[eid]
  /\ deliverCalls'[eid] = deliverCalls[eid]
  /\ editCalls'[eid] = editCalls[eid]

NewTerminalCalls(eid) ==
  {k \in DOMAIN deliverCalls'[eid] :
     /\ deliverCalls'[eid][k].phase = "terminal"
     /\ eid \in DOMAIN deliverCalls => k \notin DOMAIN deliverCalls[eid]}

NewEdits(eid) ==
  {i \in DOMAIN editCalls'[eid] :
     eid \in DOMAIN editCalls => i \notin DOMAIN editCalls[eid]}

\* C27: a step of handleRequested, handleResolved or expiry for an id leaves,
\* for every other id, the registry slot and every entry's record, timer,
\* collected refs and calls as they were; the terminal sends it starts go to
\* targets of an entry of that id and the edits it starts are of message refs
\* stored on that entry.
C27_IdsIndependent ==
  [][OpIds # {} =>
       /\ \A b \in Ids \ OpIds : MapGet(pending', b) = MapGet(pending, b)
       /\ \A eid \in DOMAIN entries : IdOf(eid) \notin OpIds => EntryUnchanged(eid)
       /\ \A eid \in DOMAIN entries' :
            /\ NewTerminalCalls(eid) # {} \/ NewEdits(eid) # {}
               => entries'[eid].request.id \in OpIds
            /\ \A k \in NewTerminalCalls(eid) :
                 /\ deliverCalls'[eid][k].ti \in DOMAIN entries'[eid].targets
                 /\ deliverCalls'[eid][k].to
                      = entries'[eid].targets[deliverCalls'[eid][k].ti].to
            /\ \A i \in NewEdits(eid) :
                 \E r \in DOMAIN entries'[eid].discordMessages :
                   /\ entries'[eid].discordMessages[r].messageId
                        = editCalls'[eid][i].messageId
                   /\ entries'[eid].discordMessages[r].channelId
                        = editCalls'[eid][i].channelId]_vars

\* handleResolved found the entry of its id, started an edit and a fresh send
\* for it, while an entry of the other id is registered with its timer armed
\* and a message ref stored, and has no terminal call
C27_Witness ==
  /\ last.op = "handleResolved" /\ last.found # {}
  /\ \E e1 \in last.found, e2 \in DOMAIN run :
       /\ IdOf(e1) = last.id /\ IdOf(e2) # last.id
       /\ Len(editCalls[e1]) = 1 /\ run[e1].update = "editing"
       /\ Registered(e2) /\ timers[entries[e2].timeoutId].state = "armed"
       /\ Len(entries[e2].discordMessages) = 1
       /\ editCalls[e2] = <<>> /\ CallsOf(e2, "terminal") = {}
       /\ Events(e2) = <<>>

InitialStarted(eid, ti) ==
  /\ eid \in DOMAIN deliverCalls
  /\ \E k \in CallsOf(eid, "initial") : deliverCalls[eid][k].ti = ti

\* C28: a step that starts a terminal send to a target of an entry, or an
\* edit of a message of the entry, comes after the step that started the
\* initial send to that target: the initial call to the target (for an edit,
\* the settled initial call that returned the message) is on record before
\* the step, whatever the state of the initial fan-out and of the clock.
C28_TerminalAfterInitial ==
  [][\A eid \in DOMAIN entries' :
       /\ \A k \in NewTerminalCalls(eid) :
            InitialStarted(eid, deliverCalls'[eid][k].ti)
       /\ \A i \in NewEdits(eid) :
            /\ eid \in DOMAIN run
            /\ \E p \in UsableRefs(eid) :
                 deliverCalls[eid][p[1]].results[p[2]].messageId
                   = editCalls'[eid][i].messageId]_vars

\* an entry expired while its initial send to a target was in flight: the
\* expired text to that target was started after it
C28_Witness ==
  \E eid \in DOMAIN run :
    /\ Events(eid) = <<"expired">> /\ ~run[eid].handoffs[1].returned
    /\ \E k0 \in CallsOf(eid, "initial"), k \in CallsOf(eid, "terminal") :
         /\ deliverCalls[eid][k0].ti = deliverCalls[eid][k].ti
         /\ deliverCalls[eid][k0].status = "inflight"
         /\ k0 < k

====
